---- MODULE Spec2Model ----
(***************************************************************************)
(* Model of `forge init` (crates/forge/src/cmd/init.rs): InitArgs::run,    *)
(* init_git_repo and init_vscode, run against one root directory.          *)
(*                                                                         *)
(* Strings whose characters matter (template references, URLs, commit      *)
(* hashes, commit messages, remapping lines, the content of                *)
(* remappings.txt) are sequences of one-character strings.  The content of *)
(* every other file is a record naming the embedded asset (or the user     *)
(* data) it holds.                                                         *)
(***************************************************************************)
EXTENDS Integers, Sequences, FiniteSets, TLC

VARIABLES
    pc,              \* position of the current run() invocation
    args,            \* the InitArgs of the current run (init.rs:13-46)
    rootExists,      \* does the root directory exist
    files,           \* path under root -> content record (Absent if none)
    dirs,            \* the directories under root that exist
    lib_remappings,  \* what Remapping::find_many(root/lib) yields, in order
    repo,            \* the git repository the root is in (nearest .git)
    template,        \* run(): the resolved template URL          (line 64)
    commit_hash,     \* run(): hash read from FETCH_HEAD          (line 81)
    new_commit_hash, \* run(): hash returned by commit_tree       (line 85)
    remappings,      \* init_vscode(): what find_many returned    (line 255)
    log,             \* calls this run has issued to its collaborators
    pre,             \* the disk and the repository when this run started
    result,          \* outcome of the last finished run
    faults,          \* collaborator calls that have failed so far
    runs             \* number of runs started

vars == <<pc, args, rootExists, files, dirs, lib_remappings, repo, template, commit_hash,
          new_commit_hash, remappings, log, pre, result, faults, runs>>

(***************************************************************************)
(* Bounds of the model.                                                    *)
(***************************************************************************)
MaxRuns == 2
MaxFaults == 1
MaxRemappings == 3

(***************************************************************************)
(* Strings.                                                                *)
(***************************************************************************)
\* The characters the model orders, in ascending byte order (str::cmp
\* compares bytes): '\n' 10, '-' 45, '/' 47, '=' 61, then the letters.
CharOrder == <<"\n", "-", "/", "=", "a", "b", "c", "d", "e", "f", "g", "i",
               "l", "o", "r", "s", "t", "x", "y">>

Ord(c) == CHOOSE i \in 1..Len(CharOrder) : CharOrder[i] = c

\* a < b for strings: byte-wise lexicographic, a proper prefix is smaller
RECURSIVE StrLess(_, _)
StrLess(a, b) ==
    IF b = <<>> THEN FALSE
    ELSE IF a = <<>> THEN TRUE
    ELSE IF Head(a) = Head(b) THEN StrLess(Tail(a), Tail(b))
    ELSE Ord(Head(a)) < Ord(Head(b))

\* str::starts_with
StartsWith(s, p) == Len(p) <= Len(s) /\ SubSeq(s, 1, Len(p)) = p

\* str::contains
Contains(s, p) ==
    \E i \in 1..(Len(s) + 1) :
        i + Len(p) - 1 <= Len(s) /\ SubSeq(s, i, i + Len(p) - 1) = p

SchemeSep == <<":", "/", "/">>
GithubPrefix == <<"g", "i", "t", "h", "u", "b", ".", "c", "o", "m", "/">>
HttpsPrefix == <<"h", "t", "t", "p", "s", ":", "/", "/">>

\* init.rs:64-70, the URL a template reference stands for
ResolveTemplate_PrefixFirst(t) ==
    IF StartsWith(t, GithubPrefix) THEN HttpsPrefix \o t
    ELSE IF Contains(t, SchemeSep) THEN t
    ELSE HttpsPrefix \o GithubPrefix \o t

ResolveTemplate(t) ==
    IF Contains(t, SchemeSep) THEN t
    ELSE IF StartsWith(t, GithubPrefix) THEN HttpsPrefix \o t
    ELSE HttpsPrefix \o GithubPrefix \o t

\* init.rs:83, format!("chore: init from {template} at {commit_hash}")
MsgInitFrom == <<"c", "h", "o", "r", "e", ":", " ", "i", "n", "i", "t", " ",
                 "f", "r", "o", "m", " ">>
MsgAt == <<" ", "a", "t", " ">>

TemplateCommitMsg(t, h) == MsgInitFrom \o t \o MsgAt \o h

\* init.rs:245, the fixed message of the default-mode commit
MsgForgeInit == <<"c", "h", "o", "r", "e", ":", " ", "f", "o", "r", "g", "e",
                  " ", "i", "n", "i", "t">>

\* Vec::sort on Strings (init.rs:260): insertion into ascending order,
\* equal elements are all kept
RECURSIVE InsertSorted(_, _)
InsertSorted(x, s) ==
    IF s = <<>> THEN <<x>>
    ELSE IF StrLess(Head(s), x) THEN <<Head(s)>> \o InsertSorted(x, Tail(s))
    ELSE <<x>> \o s

RECURSIVE SortStrings(_)
SortStrings(s) ==
    IF s = <<>> THEN <<>> ELSE InsertSorted(Head(s), SortStrings(Tail(s)))

\* [String]::join("\n") (init.rs:261)
RECURSIVE JoinLines(_)
JoinLines(s) ==
    IF s = <<>> THEN <<>>
    ELSE IF Len(s) = 1 THEN s[1]
    ELSE s[1] \o <<"\n">> \o JoinLines(Tail(s))

\* init.rs:260-261, the content written to remappings.txt
RemappingsContent_Unsorted(found) == JoinLines(found)

RemappingsContent(found) == JoinLines(SortStrings(found))

(***************************************************************************)
(* The file system under the root.                                         *)
(***************************************************************************)
Paths == {"README.md", "test/Counter.t.sol", "script/Counter.s.sol",
          "src/Counter.sol", "src/Counter.vy", "src/interface/ICounter.sol",
          "src/utils/VyperDeployer.sol", "foundry.toml", ".gitignore",
          ".github/workflows/test.yml", "remappings.txt",
          ".vscode/settings.json", "notes.txt"}

DirPaths == {"src", "test", "script", "src/interface", "src/utils", ".github",
             ".github/workflows", ".vscode", "lib", "lib/forge-std"}

Absent == [kind |-> "absent"]
Asset(name) == [kind |-> "asset", name |-> name]   \* include_str!(name)
UserData(name) == [kind |-> "user", name |-> name] \* written by the user
Text(chars) == [kind |-> "text", chars |-> chars]
Json(obj) == [kind |-> "json", obj |-> obj]        \* a JSON object
JsonNonObject == [kind |-> "json_other"]           \* valid JSON, no object
Malformed == [kind |-> "malformed"]                \* not JSON

Exists(f, p) == f[p] # Absent

NoFiles == [p \in Paths |-> Absent]

\* the entries root.read_dir() yields (init.rs:98)
RootEntries(f, d, r) ==
    {p \in {"README.md", "foundry.toml", ".gitignore", "remappings.txt",
            "notes.txt"} : Exists(f, p)}
    \cup (d \cap {"src", "test", "script", ".github", ".vscode", "lib"})
    \cup (IF r.where = "root" THEN {".git"} ELSE {})

(***************************************************************************)
(* The version-control collaborator (foundry_cli::utils::Git) on the       *)
(* repository the root is in.  A commit is [hash, parent, tree, msg]; the  *)
(* tree is the content of every path under the root.                       *)
(***************************************************************************)
NoHash == <<>>

NoRepo == [where |-> "none", objects |-> {}, head |-> NoHash,
           fetch_head |-> NoHash, outside_dirty |-> FALSE]

Commit(h, parent, tree, msg) ==
    [hash |-> h, parent |-> parent, tree |-> tree, msg |-> msg]

Object(r, h) == CHOOSE c \in r.objects : c.hash = h

HeadTree(r) == IF r.head = NoHash THEN NoFiles ELSE Object(r, r.head).tree

\* the commits `git log` lists: HEAD and its ancestors
RECURSIVE Ancestry(_, _)
Ancestry(r, h) ==
    IF h = NoHash \/ ~(\E c \in r.objects : c.hash = h) THEN {}
    ELSE {h} \cup Ancestry(r, Object(r, h).parent)

History(r) == Ancestry(r, r.head)

Digits == <<"1", "2", "3", "4", "5", "6", "7", "8", "9">>

\* the hash of the next commit object created locally
FreshHash(r) == <<"c", Digits[Cardinality(r.objects) + 1]>>

\* Git::is_in_repo
IsInRepo(r) == r.where # "none"

\* Git::ensure_clean succeeds: `git status --porcelain` prints nothing
IsClean(r, f) == ~r.outside_dirty /\ f = HeadTree(r)

\* Git::init at the root: creates root/.git unless it exists
GitInit(r) == IF r.where = "root" THEN r ELSE [NoRepo EXCEPT !.where = "root"]

\* Git::fetch(shallow, url, branch): the remote head c arrives as a commit
\* without parents and FETCH_HEAD names it
GitFetch(r, c) ==
    [r EXCEPT !.objects = @ \cup {Commit(c.hash, NoHash, c.tree, c.msg)},
              !.fetch_head = c.hash]

\* Git::commit_hash(short, "FETCH_HEAD")
GitCommitHash(r) == r.fetch_head

\* Git::commit_tree("FETCH_HEAD^{tree}", msg): a new commit object with the
\* tree of FETCH_HEAD and no parent; no reference is moved
GitCommitTree(r, msg) ==
    [r EXCEPT !.objects =
         @ \cup {Commit(FreshHash(r), NoHash, Object(r, r.fetch_head).tree, msg)}]

\* Git::reset(hard, h): HEAD moves to h
GitReset(r, h) == [r EXCEPT !.head = h]

\* the working tree after `git reset --hard h`: every path of the new tree
\* is checked out, a path only the old HEAD tracked is removed, an untracked
\* path is left alone
CheckoutFiles(r, f, h) ==
    [p \in Paths |->
        IF Exists(Object(r, h).tree, p) THEN Object(r, h).tree[p]
        ELSE IF Exists(HeadTree(r), p) THEN Absent
        ELSE f[p]]

ParentDirs(p) ==
    CASE p \in {"test/Counter.t.sol"} -> {"test"}
      [] p \in {"script/Counter.s.sol"} -> {"script"}
      [] p \in {"src/Counter.sol", "src/Counter.vy"} -> {"src"}
      [] p = "src/interface/ICounter.sol" -> {"src", "src/interface"}
      [] p = "src/utils/VyperDeployer.sol" -> {"src", "src/utils"}
      [] p = ".github/workflows/test.yml" -> {".github", ".github/workflows"}
      [] p = ".vscode/settings.json" -> {".vscode"}
      [] OTHER -> {}

\* Git::add("--all") and Git::commit(msg): one commit of the working tree on
\* top of HEAD, and none when the working tree does not differ from HEAD
GitCommitAll(r, f, msg) ==
    IF IsClean(r, f) THEN r
    ELSE [r EXCEPT !.objects = @ \cup {Commit(FreshHash(r), r.head, f, msg)},
                   !.head = FreshHash(r),
                   !.outside_dirty = FALSE]

(***************************************************************************)
(* The requests (InitArgs, init.rs:13-46).  An Option is <<>> (None) or    *)
(* <<v>> (Some(v)).  --offline, --force, --vscode and --vyper conflict     *)
(* with --template; --branch requires it.                                  *)
(***************************************************************************)
TplShort == <<"f", "/", "b">>
TplGithub == GithubPrefix \o <<"f", "/", "b">>
TplUrl == HttpsPrefix \o <<"e", ".", "x", "/", "r">>
TplBoth == GithubPrefix \o <<"a", ":", "/", "/", "b">>
TplMid == <<"x", "/">> \o GithubPrefix \o <<"y">>
TplAlmost == <<"a", ":", "/", "b">>

Templates == {TplShort, TplGithub, TplUrl, TplBoth, TplMid, TplAlmost}

Branches == {<<>>, <<"dev">>}

\* the requests with a template out of T and --commit out of C; run() reads
\* neither no_git nor commit in this mode
TemplateArgs(T, C) ==
    [template : {<<t>> : t \in T}, branch : Branches,
     offline : {FALSE}, force : {FALSE}, vscode : {FALSE}, vyper : {FALSE},
     shallow : BOOLEAN, no_git : {FALSE}, commit : C]

\* the requests without a template; shallow reaches only the installer
DefaultArgs ==
    [template : {<<>>}, branch : {<<>>},
     offline : BOOLEAN, force : BOOLEAN, vscode : BOOLEAN, vyper : BOOLEAN,
     shallow : {FALSE}, no_git : BOOLEAN, commit : BOOLEAN]

NoArgs == [template |-> <<>>, branch |-> <<>>, offline |-> FALSE,
           force |-> FALSE, vscode |-> FALSE, vyper |-> FALSE,
           shallow |-> FALSE, no_git |-> FALSE, commit |-> FALSE]

\* what the remote a template names may hold at its head
TreeA == [NoFiles EXCEPT !["README.md"] = UserData("template-a/README.md"),
                         !["foundry.toml"] = UserData("template-a/foundry.toml")]
TreeB == [NoFiles EXCEPT !["src/Counter.sol"] = UserData("template-b/Counter.sol")]

RemoteHeads ==
    {[hash |-> <<"a", "1">>, tree |-> TreeA, msg |-> <<"a">>],
     [hash |-> <<"b", "2">>, tree |-> TreeB, msg |-> <<"b">>]}

(***************************************************************************)
(* Calls a run issues, in order.                                           *)
(***************************************************************************)
Call(op, arg) == [op |-> op, arg |-> arg]

MkDir(path) == [op |-> "mkdir", path |-> path, content |-> Absent]
Write(path, content) == [op |-> "write", path |-> path, content |-> content]

\* fs::create_dir_all(path): the directory and its missing ancestors
DirClosure(path) ==
    CASE path = ".github/workflows" -> {".github", ".github/workflows"}
      [] path = "src/interface" -> {"src", "src/interface"}
      [] path = "src/utils" -> {"src", "src/utils"}
      [] path = "lib/forge-std" -> {"lib", "lib/forge-std"}
      [] OTHER -> {path}

\* the directories `git reset --hard h` removes: those above a tracked file
\* it deletes that hold no file and no other directory afterwards
EmptiedDirs(r, f, d, h) ==
    LET after == CheckoutFiles(r, f, h)
        gone == {p \in Paths : Exists(HeadTree(r), p) /\ ~Exists(Object(r, h).tree, p)}
        cand == UNION {ParentDirs(p) : p \in gone}
        above(e) == DirClosure(e) \ {e}
        nofile(c) == \A q \in Paths : Exists(after, q) => c \notin ParentDirs(q)
        leaf == {c \in cand : nofile(c) /\ \A e \in d : c \notin above(e)}
    IN  {c \in cand : nofile(c) /\ \A e \in d : c \in above(e) => e \in leaf}

CheckoutDirs(r, d, f, h) ==
    (d \ EmptiedDirs(r, f, d, h))
    \cup UNION {ParentDirs(p) : p \in {q \in Paths : Exists(Object(r, h).tree, q)}}

\* the files after the first k operations of ops
ApplyFiles(f, ops, k) ==
    [p \in Paths |->
        IF \E i \in 1..k : ops[i].op = "write" /\ ops[i].path = p
        THEN ops[CHOOSE i \in 1..k : ops[i].op = "write" /\ ops[i].path = p].content
        ELSE f[p]]

\* the directories after the first k operations of ops
ApplyDirs(d, ops, k) ==
    d \cup UNION {DirClosure(ops[i].path) : i \in {j \in 1..k : ops[j].op = "mkdir"}}

LogOps(ops, k) == [i \in 1..k |-> Call(ops[i].op, ops[i].path)]

\* the step went through: run() goes on at `next`
Proceed(calls, next) ==
    /\ log' = log \o calls
    /\ pc' = next
    /\ UNCHANGED <<result, faults>>

\* run() returns an error it raised itself, or one a collaborator raised
\* for a reason that is on the disk
Bails(calls) ==
    /\ log' = log \o calls
    /\ pc' = "failed"
    /\ result' = "err"
    /\ UNCHANGED faults

\* the last of `calls` returned Err for a reason outside the model (I/O,
\* network, the git binary) and `?` returned it from run()
Failed(calls) ==
    /\ faults < MaxFaults
    /\ faults' = faults + 1
    /\ log' = log \o calls
    /\ pc' = "failed"
    /\ result' = "err"

\* A sequence of file-system calls, each followed by `?`: the first k
\* succeed; when k < Len(ops) call k+1 fails and run() returns its error.
FsSteps(ops, next) ==
    \E k \in 0..Len(ops) :
        /\ files' = ApplyFiles(files, ops, k)
        /\ dirs' = ApplyDirs(dirs, ops, k)
        /\ IF k = Len(ops)
           THEN Proceed(LogOps(ops, k), next)
           ELSE Failed(LogOps(ops, k + 1))

(***************************************************************************)
(* Decisions of run(), init_git_repo() and init_vscode().                  *)
(***************************************************************************)
\* init.rs:63/96, the mode entered after the root was created
AfterRoot_TemplateFallsThrough(a) == "guard"

AfterRoot(a) == IF a.template # <<>> THEN "resolve" ELSE "guard"

\* init.rs:98, root.read_dir(): the entries of the root, or an error
ReadDir(f, d, r, ok) ==
    [ok |-> ok, entries |-> IF ok THEN RootEntries(f, d, r) ELSE {}]

\* init.rs:98-99, the non-empty-directory guard bails: is_ok_and is false
\* when the root cannot be listed
GuardBails_ForceInverted(listing, force) ==
    listing.ok /\ listing.entries # {} /\ force

GuardBails(listing, force) ==
    listing.ok /\ listing.entries # {} /\ ~force

\* init.rs:109, is the clean-tree check made (before is_in_repo is asked)
WantsCleanCheck_ForceInverted(a) == ~a.no_git /\ a.commit /\ a.force

WantsCleanCheck(a) == ~a.no_git /\ a.commit /\ ~a.force

\* init.rs:116-123
ScaffoldDirs == <<MkDir("src"), MkDir("test"), MkDir("script")>>

\* init.rs:126-171, the variant's directories and files in the order written
ScaffoldOps_KeepsExisting(vyper) ==
    SelectSeq(
        IF vyper
        THEN <<MkDir("src/interface"), MkDir("src/utils"),
               Write("test/Counter.t.sol", Asset("vyper/CounterTemplate.t.sol")),
               Write("script/Counter.s.sol", Asset("vyper/CounterTemplate.s.sol")),
               Write("README.md", Asset("vyper/README.md")),
               Write("src/Counter.vy", Asset("vyper/CounterTemplate.vy")),
               Write("src/interface/ICounter.sol", Asset("vyper/ICounterTemplate.sol")),
               Write("src/utils/VyperDeployer.sol", Asset("vyper/VyperDeployerTemplate.sol"))>>
        ELSE <<Write("test/Counter.t.sol", Asset("solidity/CounterTemplate.t.sol")),
               Write("script/Counter.s.sol", Asset("solidity/CounterTemplate.s.sol")),
               Write("README.md", Asset("solidity/README.md")),
               Write("src/Counter.sol", Asset("solidity/CounterTemplate.sol"))>>,
        LAMBDA o : o.op = "mkdir" \/ ~Exists(files, o.path))

ScaffoldOps(vyper) ==
    IF vyper
    THEN <<MkDir("src/interface"), MkDir("src/utils"),
           Write("test/Counter.t.sol", Asset("vyper/CounterTemplate.t.sol")),
           Write("script/Counter.s.sol", Asset("vyper/CounterTemplate.s.sol")),
           Write("README.md", Asset("vyper/README.md")),
           Write("src/Counter.vy", Asset("vyper/CounterTemplate.vy")),
           Write("src/interface/ICounter.sol", Asset("vyper/ICounterTemplate.sol")),
           Write("src/utils/VyperDeployer.sol", Asset("vyper/VyperDeployerTemplate.sol"))>>
    ELSE <<Write("test/Counter.t.sol", Asset("solidity/CounterTemplate.t.sol")),
           Write("script/Counter.s.sol", Asset("solidity/CounterTemplate.s.sol")),
           Write("README.md", Asset("solidity/README.md")),
           Write("src/Counter.sol", Asset("solidity/CounterTemplate.sol"))>>

\* init.rs:179, the fixed vyper configuration; init.rs:183, the basic
\* configuration derived from the loaded one
VyperConfig == [kind |-> "literal", name |-> "[profile.default] ... ffi = true"]
BasicConfig == [kind |-> "derived", name |-> "Config::into_basic"]

\* init.rs:176-184, the writes of the project configuration
ConfigOps_VyperOverwrites(f, vyper) ==
    IF vyper THEN <<Write("foundry.toml", VyperConfig)>>
    ELSE IF ~Exists(f, "foundry.toml") THEN <<Write("foundry.toml", BasicConfig)>>
    ELSE <<>>

ConfigOps(f, vyper) ==
    IF vyper
    THEN IF ~Exists(f, "foundry.toml")
         THEN <<Write("foundry.toml", VyperConfig)>> ELSE <<>>
    ELSE IF ~Exists(f, "foundry.toml")
         THEN <<Write("foundry.toml", BasicConfig)>> ELSE <<>>

\* init.rs:188-193, after the configuration: the repository unless no_git
AfterConfig_InstallFirst(a) == "install"

AfterConfig_IgnoresNoGit(a) == "git_init"

AfterConfig(a) == IF ~a.no_git THEN "git_init" ELSE "install"

\* init.rs:226-229
GitignoreOps(f) ==
    IF ~Exists(f, ".gitignore")
    THEN <<Write(".gitignore", Asset("solidity/.gitignoreTemplate"))>> ELSE <<>>

\* init.rs:232-240
WorkflowOps(f, vyper) ==
    IF ~Exists(f, ".github/workflows/test.yml")
    THEN <<MkDir(".github/workflows"),
           Write(".github/workflows/test.yml",
                 IF vyper THEN Asset("vyper/workflowTemplate.yml")
                 ELSE Asset("solidity/workflowTemplate.yml"))>>
    ELSE <<>>

\* init.rs:193-206, after the repository: the installer unless offline
AfterGit(a) == "install"

\* init.rs:194-200, the dependencies handed to the installer
ForgeStd == <<"forge-std">>
InstallDeps_AlwaysForgeStd(d) == <<ForgeStd>>

InstallDeps(d) == IF "lib/forge-std" \in d THEN <<>> ELSE <<ForgeStd>>

\* init.rs:204-209
AfterInstall(a) == IF a.vscode THEN "vscode_remappings" ELSE "finish"

\* init.rs:268-275, the settings document init_vscode starts from:
\* [ok, doc]; ok is FALSE when read_json_file returns Err
EmptyDoc == Json([k \in {} |-> ""])

LoadSettings_MalformedAsEmpty(f, d) ==
    IF ".vscode" \notin d THEN [ok |-> TRUE, doc |-> EmptyDoc]
    ELSE IF Exists(f, ".vscode/settings.json")
    THEN IF f[".vscode/settings.json"] = Malformed
         THEN [ok |-> TRUE, doc |-> EmptyDoc]
         ELSE [ok |-> TRUE, doc |-> f[".vscode/settings.json"]]
    ELSE [ok |-> TRUE, doc |-> EmptyDoc]

LoadSettings(f, d) ==
    IF ".vscode" \notin d THEN [ok |-> TRUE, doc |-> EmptyDoc]
    ELSE IF Exists(f, ".vscode/settings.json")
    THEN IF f[".vscode/settings.json"] = Malformed
         THEN [ok |-> FALSE, doc |-> Malformed]
         ELSE [ok |-> TRUE, doc |-> f[".vscode/settings.json"]]
    ELSE [ok |-> TRUE, doc |-> EmptyDoc]

\* init.rs:279-286, the two keys inserted when absent
SrcKey == "solidity.packageDefaultDependenciesContractsDirectory"
LibKey == "solidity.packageDefaultDependenciesDirectory"

InsertIfAbsent(obj, key, value) ==
    IF key \in DOMAIN obj THEN obj
    ELSE [k \in DOMAIN obj \cup {key} |-> IF k = key THEN value ELSE obj[k]]

InsertAlways(obj, key, value) ==
    [k \in DOMAIN obj \cup {key} |-> IF k = key THEN value ELSE obj[k]]

MergeSettings_Overwrites(obj) ==
    InsertAlways(InsertAlways(obj, SrcKey, "src"), LibKey, "lib")

MergeSettings(obj) ==
    InsertIfAbsent(InsertIfAbsent(obj, SrcKey, "src"), LibKey, "lib")

(***************************************************************************)
(* run(), one action per step.  Every collaborator call that returns a     *)
(* Result may fail; `?` then ends the run with that error.                 *)
(***************************************************************************)
Snapshot == [rootExists |-> rootExists, files |-> files, dirs |-> dirs,
             lib_remappings |-> lib_remappings, repo |-> repo]

\* init.rs:49-51, run() is entered with its arguments
Start(a) ==
    /\ pc \in {"idle", "done", "failed", "panicked"}
    /\ runs < MaxRuns
    /\ runs' = runs + 1
    /\ args' = a
    /\ pc' = "create_root"
    /\ result' = "running"
    /\ log' = <<>>
    /\ pre' = Snapshot
    /\ template' = <<>>
    /\ commit_hash' = NoHash
    /\ new_commit_hash' = NoHash
    /\ remappings' = <<>>
    /\ UNCHANGED <<rootExists, files, dirs, lib_remappings, repo, faults>>

\* the lines run() prints; a line that cannot be written is an Err too
InitializingFrom == Call("println", "Initializing {} from {}...")
Initializing == Call("println", "Initializing {}...")
\* (the message quotes --force in backquotes, which a TLA+ string cannot hold)
WarnNotEmpty == Call("warn", "Target directory is not empty, but --force was specified")
WarnForgeStd == Call("warn", "lib/forge-std already exists, skipping install...")
Initialized == Call("println", "    Initialized forge project")

\* init.rs:57
CanonicalizeCall == Call("canonicalize", ".")

\* init.rs:53-58
CreateRoot ==
    /\ pc = "create_root"
    /\ IF rootExists
       THEN /\ \/ Proceed(<<CanonicalizeCall>>, AfterRoot(args))
               \/ Failed(<<CanonicalizeCall>>)
            /\ UNCHANGED rootExists
       ELSE \/ /\ rootExists' = TRUE
               /\ \/ Proceed(<<Call("mkdir", "."), CanonicalizeCall>>, AfterRoot(args))
                  \/ Failed(<<Call("mkdir", "."), CanonicalizeCall>>)
            \/ /\ Failed(<<Call("mkdir", ".")>>)
               /\ UNCHANGED rootExists
    /\ UNCHANGED <<args, files, dirs, lib_remappings, repo, template,
                   commit_hash, new_commit_hash, remappings, pre, runs>>

\* init.rs:63-71
Resolve ==
    /\ pc = "resolve"
    /\ template' = ResolveTemplate(args.template[1])
    /\ \/ Proceed(<<InitializingFrom>>, "template_init")
       \/ Failed(<<InitializingFrom>>)
    /\ UNCHANGED <<args, rootExists, files, dirs, lib_remappings, repo,
                   commit_hash, new_commit_hash, remappings, pre, runs>>

\* init.rs:73
TemplateInit ==
    /\ pc = "template_init"
    /\ \/ /\ repo' = GitInit(repo)
          /\ Proceed(<<Call("git init", <<>>)>>, "template_fetch")
       \/ /\ Failed(<<Call("git init", <<>>)>>)
          /\ UNCHANGED repo
    /\ UNCHANGED <<args, rootExists, files, dirs, lib_remappings, template,
                   commit_hash, new_commit_hash, remappings, pre, runs>>

\* init.rs:77, git.fetch(true, &template, branch)
FetchShallow_AsRequested(a) == a.shallow

FetchShallow(a) == TRUE

FetchCall(a, url) ==
    Call("git fetch", [shallow |-> FetchShallow(a), url |-> url, branch |-> a.branch])

TemplateFetch ==
    /\ pc = "template_fetch"
    /\ \/ \E c \in RemoteHeads :
            /\ repo' = GitFetch(repo, c)
            /\ Proceed(<<FetchCall(args, template)>>, "template_hash")
       \/ /\ Failed(<<FetchCall(args, template)>>)
          /\ UNCHANGED repo
    /\ UNCHANGED <<args, rootExists, files, dirs, lib_remappings, template,
                   commit_hash, new_commit_hash, remappings, pre, runs>>

\* init.rs:81
TemplateHash ==
    /\ pc = "template_hash"
    /\ \/ /\ commit_hash' = GitCommitHash(repo)
          /\ Proceed(<<Call("git rev-parse", "FETCH_HEAD")>>, "template_commit_tree")
       \/ /\ Failed(<<Call("git rev-parse", "FETCH_HEAD")>>)
          /\ UNCHANGED commit_hash
    /\ UNCHANGED <<args, rootExists, files, dirs, lib_remappings, repo,
                   template, new_commit_hash, remappings, pre, runs>>

\* init.rs:83-85
TemplateCommitTree ==
    /\ pc = "template_commit_tree"
    /\ \/ /\ repo' = GitCommitTree(repo, TemplateCommitMsg(template, commit_hash))
          /\ new_commit_hash' = FreshHash(repo)
          /\ Proceed(<<Call("git commit-tree", "FETCH_HEAD^{tree}")>>, "template_reset")
       \/ /\ Failed(<<Call("git commit-tree", "FETCH_HEAD^{tree}")>>)
          /\ UNCHANGED <<repo, new_commit_hash>>
    /\ UNCHANGED <<args, rootExists, files, dirs, lib_remappings, template,
                   commit_hash, remappings, pre, runs>>

\* init.rs:87, the commit the hard reset moves HEAD to
ResetTarget_FetchedHead(fetched, new) == fetched

ResetTarget(fetched, new) == new

TemplateReset ==
    /\ pc = "template_reset"
    /\ \/ /\ repo' = GitReset(repo, ResetTarget(commit_hash, new_commit_hash))
          /\ files' = CheckoutFiles(repo, files, ResetTarget(commit_hash, new_commit_hash))
          /\ dirs' = CheckoutDirs(repo, dirs, files, ResetTarget(commit_hash, new_commit_hash))
          /\ Proceed(<<Call("git reset --hard", new_commit_hash)>>, "template_submodules")
       \/ /\ Failed(<<Call("git reset --hard", new_commit_hash)>>)
          /\ UNCHANGED <<repo, files, dirs>>
       \* the reset fails after the checkout and before HEAD is moved
       \/ /\ Failed(<<Call("git reset --hard", new_commit_hash)>>)
          /\ files' = CheckoutFiles(repo, files, ResetTarget(commit_hash, new_commit_hash))
          /\ dirs' = CheckoutDirs(repo, dirs, files, ResetTarget(commit_hash, new_commit_hash))
          /\ UNCHANGED repo
    /\ UNCHANGED <<args, rootExists, lib_remappings, template, commit_hash,
                   new_commit_hash, remappings, pre, runs>>

\* init.rs:90-95
\* Git::submodule_update(force, remote, no_fetch, recursive, paths) runs
\* `git submodule update --init` with the flags its arguments select
SubmoduleUpdateFlags(arg) ==
    [force |-> arg[1], remote |-> arg[2], no_fetch |-> arg[3], recursive |-> arg[4]]

SubmoduleCall_Swapped(a) ==
    IF ~a.shallow THEN Call("git submodule init", <<>>)
    ELSE Call("git submodule update", <<FALSE, FALSE, TRUE, TRUE>>)

SubmoduleCall(a) ==
    IF a.shallow THEN Call("git submodule init", <<>>)
    ELSE Call("git submodule update", <<FALSE, FALSE, TRUE, TRUE>>)

TemplateSubmodules ==
    /\ pc = "template_submodules"
    /\ \/ Proceed(<<SubmoduleCall(args)>>, "finish")
       \/ Failed(<<SubmoduleCall(args)>>)
    /\ UNCHANGED <<args, rootExists, files, dirs, lib_remappings, repo,
                   template, commit_hash, new_commit_hash, remappings, pre, runs>>

\* init.rs:97-106
Guard ==
    /\ pc = "guard"
    /\ \/ IF GuardBails(ReadDir(files, dirs, repo, TRUE), args.force)
          THEN Bails(<<>>)
          ELSE IF RootEntries(files, dirs, repo) # {}
               \* init.rs:105, the warning is written or cannot be
               THEN \/ Proceed(<<WarnNotEmpty>>, "clean_check")
                    \/ Failed(<<WarnNotEmpty>>)
               ELSE Proceed(<<>>, "clean_check")
       \* read_dir returns Err: no error reaches run()
       \/ /\ faults < MaxFaults
          /\ faults' = faults + 1
          /\ log' = log
          /\ IF GuardBails(ReadDir(files, dirs, repo, FALSE), args.force)
             THEN pc' = "failed" /\ result' = "err"
             ELSE pc' = "clean_check" /\ UNCHANGED result
    /\ UNCHANGED <<args, rootExists, files, dirs, lib_remappings, repo,
                   template, commit_hash, new_commit_hash, remappings, pre, runs>>

\* init.rs:108-111
IsInRepoCall == Call("git rev-parse", "--is-inside-work-tree")
EnsureCleanCall == Call("git status", "--porcelain")

CleanCheck ==
    /\ pc = "clean_check"
    /\ IF WantsCleanCheck(args)
       THEN \/ /\ IsInRepo(repo)
               /\ IF IsClean(repo, files)
                  THEN \/ Proceed(<<IsInRepoCall, EnsureCleanCall>>, "make_dirs")
                       \/ Failed(<<IsInRepoCall, EnsureCleanCall>>)
                  ELSE Bails(<<IsInRepoCall, EnsureCleanCall>>)
            \/ /\ ~IsInRepo(repo)
               /\ Proceed(<<IsInRepoCall>>, "make_dirs")
            \/ Failed(<<IsInRepoCall>>)
       ELSE Proceed(<<>>, "make_dirs")
    /\ UNCHANGED <<args, rootExists, files, dirs, lib_remappings, repo,
                   template, commit_hash, new_commit_hash, remappings, pre, runs>>

\* init.rs:113-123
MakeDirs ==
    /\ pc = "make_dirs"
    /\ LET print == [op |-> Initializing.op, path |-> Initializing.arg,
                     content |-> Absent]
       IN  FsSteps(<<print>> \o ScaffoldDirs, "scaffold")
    /\ UNCHANGED <<args, rootExists, lib_remappings, repo, template,
                   commit_hash, new_commit_hash, remappings, pre, runs>>

\* init.rs:125-171
Scaffold ==
    /\ pc = "scaffold"
    /\ FsSteps(ScaffoldOps(args.vyper), "config")
    /\ UNCHANGED <<args, rootExists, lib_remappings, repo, template,
                   commit_hash, new_commit_hash, remappings, pre, runs>>

\* init.rs:173-185; Config::load_with_root may fail before anything is written
LoadConfig == [op |-> "load", path |-> "foundry.toml", content |-> Absent]

WriteConfig ==
    /\ pc = "config"
    /\ FsSteps(<<LoadConfig>> \o ConfigOps(files, args.vyper), AfterConfig(args))
    /\ UNCHANGED <<args, rootExists, lib_remappings, repo, template,
                   commit_hash, new_commit_hash, remappings, pre, runs>>

\* init.rs:220-223 (init_git_repo)
RepoInit ==
    /\ pc = "git_init"
    /\ \/ /\ IsInRepo(repo)
          /\ Proceed(<<IsInRepoCall>>, "git_ignore")
          /\ UNCHANGED repo
       \/ /\ Failed(<<IsInRepoCall>>)
          /\ UNCHANGED repo
       \/ /\ ~IsInRepo(repo)
          /\ repo' = GitInit(repo)
          /\ Proceed(<<IsInRepoCall, Call("git init", <<>>)>>, "git_ignore")
       \/ /\ ~IsInRepo(repo)
          /\ Failed(<<IsInRepoCall, Call("git init", <<>>)>>)
          /\ UNCHANGED repo
    /\ UNCHANGED <<args, rootExists, files, dirs, lib_remappings, template,
                   commit_hash, new_commit_hash, remappings, pre, runs>>

\* init.rs:225-229 (init_git_repo)
RepoGitignore ==
    /\ pc = "git_ignore"
    /\ FsSteps(GitignoreOps(files), "git_workflow")
    /\ UNCHANGED <<args, rootExists, lib_remappings, repo, template,
                   commit_hash, new_commit_hash, remappings, pre, runs>>

\* init.rs:231-240 (init_git_repo)
RepoWorkflow ==
    /\ pc = "git_workflow"
    /\ FsSteps(WorkflowOps(files, args.vyper), "git_commit")
    /\ UNCHANGED <<args, rootExists, lib_remappings, repo, template,
                   commit_hash, new_commit_hash, remappings, pre, runs>>

\* init.rs:242-248 (init_git_repo)
CommitCalls == <<Call("git add", "--all"), Call("git commit", MsgForgeInit)>>

RepoCommit ==
    /\ pc = "git_commit"
    /\ IF args.commit
       THEN \/ /\ repo' = GitCommitAll(repo, files, MsgForgeInit)
               /\ Proceed(CommitCalls, AfterGit(args))
            \/ /\ Failed(CommitCalls)
               /\ UNCHANGED repo
            \/ /\ Failed(<<CommitCalls[1]>>)
               /\ UNCHANGED repo
       ELSE /\ Proceed(<<>>, AfterGit(args))
            /\ UNCHANGED repo
    /\ UNCHANGED <<args, rootExists, files, dirs, lib_remappings, template,
                   commit_hash, new_commit_hash, remappings, pre, runs>>

\* the line find_many yields for lib/forge-std
ForgeStdRemapping ==
    <<"f", "o", "r", "g", "e", "-", "s", "t", "d", "/", "=", "l", "i", "b", "/",
      "f", "o", "r", "g", "e", "-", "s", "t", "d", "/", "s", "r", "c", "/">>

\* init.rs:192-201; DependencyInstallOpts::install puts each dependency
\* under lib/
InstallCall(d) == Call("install", InstallDeps(d))

Install ==
    /\ pc = "install"
    /\ IF ~args.offline
       THEN LET warned == IF InstallDeps(dirs) = <<>> THEN <<WarnForgeStd>> ELSE <<>>
            IN
            \/ /\ IF InstallDeps(dirs) = <<>>
                  THEN UNCHANGED <<dirs, lib_remappings>>
                  ELSE /\ dirs' = dirs \cup DirClosure("lib/forge-std")
                       /\ lib_remappings' = Append(lib_remappings, ForgeStdRemapping)
               /\ Proceed(warned \o <<InstallCall(dirs)>>, AfterInstall(args))
            \/ /\ Failed(warned \o <<InstallCall(dirs)>>)
               /\ UNCHANGED <<dirs, lib_remappings>>
            \* init.rs:195, the warning cannot be written
            \/ /\ InstallDeps(dirs) = <<>>
               /\ Failed(<<WarnForgeStd>>)
               /\ UNCHANGED <<dirs, lib_remappings>>
       ELSE /\ Proceed(<<>>, AfterInstall(args))
            /\ UNCHANGED <<dirs, lib_remappings>>
    /\ UNCHANGED <<args, rootExists, files, repo, template, commit_hash,
                   new_commit_hash, remappings, pre, runs>>

\* init.rs:255-258, Remapping::find_many(&root.join("lib")): the remappings
\* the discovery returns, collected into a Vec in the order and as often as
\* it returns them
FindMany(d, l) == IF "lib" \in d THEN l ELSE <<>>

\* init.rs:254, remappings are looked for
LooksForRemappings_Always(f) == TRUE

LooksForRemappings(f) == ~Exists(f, "remappings.txt")

\* init.rs:259-263
RemappingOps_WritesEmpty(found) ==
    <<Write("remappings.txt", Text(RemappingsContent(found)))>>

RemappingOps(found) ==
    IF found # <<>>
    THEN <<Write("remappings.txt", Text(RemappingsContent(found)))>> ELSE <<>>

\* init.rs:253-264 (init_vscode)
VscodeRemappings ==
    /\ pc = "vscode_remappings"
    /\ IF LooksForRemappings(files)
       THEN /\ remappings' = FindMany(dirs, lib_remappings)
            /\ FsSteps(RemappingOps(FindMany(dirs, lib_remappings)), "vscode_settings")
       ELSE /\ Proceed(<<>>, "vscode_settings")
            /\ UNCHANGED <<files, dirs, remappings>>
    /\ UNCHANGED <<args, rootExists, lib_remappings, repo, template,
                   commit_hash, new_commit_hash, pre, runs>>

\* init.rs:266-289 (init_vscode); `expect` panics on a document that is no
\* JSON object
ReadSettings ==
    [op |-> "read_json_file", path |-> ".vscode/settings.json", content |-> Absent]

SettingsOps(f, d) ==
    (IF ".vscode" \notin d THEN <<MkDir(".vscode")>>
     ELSE IF Exists(f, ".vscode/settings.json") THEN <<ReadSettings>>
     ELSE <<>>)
    \o <<Write(".vscode/settings.json",
               Json(MergeSettings(LoadSettings(f, d).doc.obj)))>>

ReadSettingsCall == Call("read_json_file", ".vscode/settings.json")

VscodeSettings ==
    /\ pc = "vscode_settings"
    /\ remappings' = <<>>
    /\ IF ~LoadSettings(files, dirs).ok
       THEN /\ Bails(<<ReadSettingsCall>>)
            /\ UNCHANGED <<files, dirs>>
       ELSE IF LoadSettings(files, dirs).doc.kind # "json"
       THEN /\ \/ /\ log' = Append(log, ReadSettingsCall)
                  /\ pc' = "panicked"
                  /\ result' = "panic"
                  /\ UNCHANGED faults
               \/ Failed(<<ReadSettingsCall>>)
            /\ UNCHANGED <<files, dirs>>
       ELSE FsSteps(SettingsOps(files, dirs), "finish")
    /\ UNCHANGED <<args, rootExists, lib_remappings, repo, template,
                   commit_hash, new_commit_hash, pre, runs>>

\* init.rs:209-210
Finish ==
    /\ pc = "finish"
    /\ \/ /\ log' = Append(log, Initialized)
          /\ pc' = "done"
          /\ result' = "ok"
          /\ UNCHANGED faults
       \/ Failed(<<Initialized>>)
    /\ UNCHANGED <<args, rootExists, files, dirs, lib_remappings, repo,
                   template, commit_hash, new_commit_hash, remappings, pre,
                   runs>>

(***************************************************************************)
(* The disks a run may start from.                                         *)
(***************************************************************************)
RemapAY == <<"a", "/", "y">>
RemapBX == <<"b", "/", "x">>
RemapA == <<"a">>

OuterCommit == Commit(<<"o", "1">>, NoHash, NoFiles, <<"o">>)

\* the root lies inside the working tree of a repository of a parent directory
OuterRepo(dirty) ==
    [where |-> "outer", objects |-> {OuterCommit}, head |-> OuterCommit.hash,
     fetch_head |-> NoHash, outside_dirty |-> dirty]

\* the root holds a repository with one commit of the files f
RootRepo(f) ==
    [where |-> "root", objects |-> {Commit(<<"u", "1">>, NoHash, f, <<"u">>)},
     head |-> <<"u", "1">>, fetch_head |-> NoHash, outside_dirty |-> FALSE]

Disk(e, f, d, l, r) ==
    [rootExists |-> e, files |-> f, dirs |-> d, lib_remappings |-> l, repo |-> r]

NotesOnly == [NoFiles EXCEPT !["notes.txt"] = UserData("notes.txt")]

UserProject ==
    [NoFiles EXCEPT !["foundry.toml"] = UserData("foundry.toml"),
                    !["README.md"] = UserData("README.md"),
                    ![".gitignore"] = UserData(".gitignore"),
                    ![".github/workflows/test.yml"] = UserData("test.yml")]

UserSettings == Json([k \in {LibKey} |-> "custom"])

InitDisks ==
    \* no root directory
    {Disk(FALSE, NoFiles, {}, <<>>, r) : r \in {NoRepo, OuterRepo(TRUE)}}
    \* an empty root directory
    \cup {Disk(TRUE, NoFiles, {}, <<>>, r) :
            r \in {NoRepo, OuterRepo(FALSE), OuterRepo(TRUE)}}
    \* a directory with a file of the user
    \cup {Disk(TRUE, NotesOnly, {}, <<>>, NoRepo)}
    \* a project of the user in its own repository, committed or not
    \cup {Disk(TRUE, UserProject, {".github", ".github/workflows"}, <<>>, r) :
            r \in {RootRepo(UserProject), RootRepo(NotesOnly)}}
    \* editor settings and libraries of the user
    \cup {Disk(TRUE, [NoFiles EXCEPT ![".vscode/settings.json"] = doc],
               {".vscode", "lib", "lib/forge-std"}, <<RemapBX, RemapAY>>, NoRepo) :
            doc \in {Malformed, JsonNonObject, UserSettings}}

InitOn(disks) ==
    /\ pc = "idle"
    /\ args = NoArgs
    /\ \E disk \in disks :
        /\ rootExists = disk.rootExists
        /\ files = disk.files
        /\ dirs = disk.dirs
        /\ lib_remappings = disk.lib_remappings
        /\ repo = disk.repo
        /\ pre = disk
    /\ template = <<>>
    /\ commit_hash = NoHash
    /\ new_commit_hash = NoHash
    /\ remappings = <<>>
    /\ log = <<>>
    /\ result = "none"
    /\ faults = 0
    /\ runs = 0

Init == InitOn(InitDisks)

\* the templates of the runs of Spec
MainTemplates == {TplShort}

Next ==
    \/ \E a \in TemplateArgs(MainTemplates, BOOLEAN) \cup DefaultArgs : Start(a)
    \/ CreateRoot
    \/ Resolve
    \/ TemplateInit
    \/ TemplateFetch
    \/ TemplateHash
    \/ TemplateCommitTree
    \/ TemplateReset
    \/ TemplateSubmodules
    \/ Guard
    \/ CleanCheck
    \/ MakeDirs
    \/ Scaffold
    \/ WriteConfig
    \/ RepoInit
    \/ RepoGitignore
    \/ RepoWorkflow
    \/ RepoCommit
    \/ Install
    \/ VscodeRemappings
    \/ VscodeSettings
    \/ Finish

\* every run of the program, in either mode
Spec == Init /\ [][Next]_vars

(***************************************************************************)
(* Template mode alone, over every template reference.                     *)
(***************************************************************************)
NextTemplate ==
    \/ \E a \in TemplateArgs(Templates, BOOLEAN) : Start(a)
    \/ CreateRoot
    \/ Resolve
    \/ TemplateInit
    \/ TemplateFetch
    \/ TemplateHash
    \/ TemplateCommitTree
    \/ TemplateReset
    \/ TemplateSubmodules
    \/ Finish

SpecTemplate == Init /\ [][NextTemplate]_vars

(***************************************************************************)
(* init_vscode alone (init.rs:252-292), entered from run() at line 205 on  *)
(* a scaffolded root, over every settings document and every list of       *)
(* remappings up to MaxRemappings.                                         *)
(***************************************************************************)
RECURSIVE SeqsUpTo(_, _)
SeqsUpTo(S, n) ==
    IF n = 0 THEN {<<>>}
    ELSE SeqsUpTo(S, n - 1)
         \cup {Append(q, x) : q \in {r \in SeqsUpTo(S, n - 1) : Len(r) = n - 1}, x \in S}

RemappingLines == {RemapAY, RemapBX, RemapA}

SettingsKeys == {SrcKey, LibKey, "editor.tabSize"}

SettingsDocs ==
    {Malformed, JsonNonObject}
    \cup {Json([k \in K |-> "custom"]) : K \in SUBSET SettingsKeys}

Scaffolded ==
    [ApplyFiles(NoFiles, ScaffoldOps(FALSE), Len(ScaffoldOps(FALSE)))
        EXCEPT !["foundry.toml"] = BasicConfig]

VscodeDisks ==
    {Disk(TRUE,
          [Scaffolded EXCEPT ![".vscode/settings.json"] = doc,
                             !["remappings.txt"] = rem],
          {"src", "test", "script"} \cup vs \cup (IF l = <<>> THEN lb ELSE {"lib"}),
          l, NoRepo) :
        doc \in SettingsDocs \cup {Absent},
        rem \in {Absent, UserData("remappings.txt")},
        vs \in {{}, {".vscode"}},
        lb \in {{}, {"lib"}},
        l \in SeqsUpTo(RemappingLines, MaxRemappings)}

VscodeArgs == [NoArgs EXCEPT !.vscode = TRUE, !.offline = TRUE, !.no_git = TRUE]

InitVscode ==
    /\ pc = "vscode_remappings"
    /\ args = VscodeArgs
    /\ \E disk \in {d \in VscodeDisks :
                      Exists(d.files, ".vscode/settings.json") => ".vscode" \in d.dirs} :
        /\ rootExists = disk.rootExists
        /\ files = disk.files
        /\ dirs = disk.dirs
        /\ lib_remappings = disk.lib_remappings
        /\ repo = disk.repo
        /\ pre = disk
    /\ template = <<>>
    /\ commit_hash = NoHash
    /\ new_commit_hash = NoHash
    /\ remappings = <<>>
    /\ log = <<>>
    /\ result = "running"
    /\ faults = 0
    /\ runs = 1

NextVscode ==
    \/ VscodeRemappings
    \/ VscodeSettings

SpecVscode == InitVscode /\ [][NextVscode]_vars

(***************************************************************************)
(* Properties.                                                             *)
(***************************************************************************)
InRun == runs > 0
DefaultMode == InRun /\ args.template = <<>>
TemplateMode == InRun /\ args.template # <<>>

Logged(op) == \E i \in DOMAIN log : log[i].op = op
LoggedFs(op, path) == \E i \in DOMAIN log : log[i].op = op /\ log[i].arg = path

\* C1: the URL handed to fetch is the template reference itself when it
\* contains "://", else "https://" + reference when it starts with
\* "github.com/", else "https://github.com/" + reference; the first rule that
\* applies wins.  The three examples of the specification are spelled out.
C1_FetchUrl ==
    \A i \in DOMAIN log :
        log[i].op = "git fetch" =>
            LET r == args.template[1]
                u == log[i].arg.url
            IN  /\ Contains(r, <<":", "/", "/">>) => u = r
                /\ ~Contains(r, <<":", "/", "/">>) /\ StartsWith(r, GithubPrefix)
                      => u = <<"h", "t", "t", "p", "s", ":", "/", "/">> \o r
                /\ ~Contains(r, <<":", "/", "/">>) /\ ~StartsWith(r, GithubPrefix)
                      => u = <<"h", "t", "t", "p", "s", ":", "/", "/", "g", "i",
                               "t", "h", "u", "b", ".", "c", "o", "m", "/">> \o r
                /\ r = <<"f", "/", "b">>
                      => u = <<"h", "t", "t", "p", "s", ":", "/", "/", "g", "i",
                               "t", "h", "u", "b", ".", "c", "o", "m", "/", "f",
                               "/", "b">>
                /\ r = <<"g", "i", "t", "h", "u", "b", ".", "c", "o", "m", "/",
                         "f", "/", "b">>
                      => u = <<"h", "t", "t", "p", "s", ":", "/", "/", "g", "i",
                               "t", "h", "u", "b", ".", "c", "o", "m", "/", "f",
                               "/", "b">>
                /\ r = <<"h", "t", "t", "p", "s", ":", "/", "/", "e", ".", "x",
                         "/", "r">> => u = r

\* a reference that contains "://" and starts with "github.com/" was fetched
\* unchanged
C1_Witness ==
    /\ args.template = <<TplBoth>>
    /\ \E i \in DOMAIN log : log[i].op = "git fetch" /\ log[i].arg.url = TplBoth

\* the run that was started in default mode on a non-empty root without
\* --force
GuardedRun ==
    /\ DefaultMode
    /\ RootEntries(pre.files, pre.dirs, pre.repo) # {}
    /\ ~args.force

\* C2: a default-mode run on a root with at least one entry and without
\* --force never gets past the guard, and up to and at its failure it has
\* created no directory, written no file, changed no repository and called
\* no collaborator.
C2_NonEmptyGuard ==
    GuardedRun =>
        /\ pc \in {"create_root", "guard", "failed"}
        /\ result \in {"running", "err"}
        /\ files = pre.files
        /\ dirs = pre.dirs
        /\ repo = pre.repo
        /\ lib_remappings = pre.lib_remappings
        /\ \A i \in DOMAIN log : log[i] = CanonicalizeCall

\* the run on a root that holds only notes.txt has failed at the guard
C2_Witness ==
    /\ GuardedRun
    /\ pc = "failed" /\ result = "err"
    /\ RootEntries(pre.files, pre.dirs, pre.repo) = {"notes.txt"}

WriteIfAbsentPaths == {"foundry.toml", ".gitignore", ".github/workflows/test.yml"}

\* C3: in every default-mode run, whatever its flags, a foundry.toml,
\* .gitignore or .github/workflows/test.yml that existed when the run started
\* keeps its content and is not written again, and a run that started inside
\* a repository calls no `git init`.
C3_WriteIfAbsent ==
    DefaultMode =>
        /\ \A p \in WriteIfAbsentPaths :
               Exists(pre.files, p) =>
                   /\ files[p] = pre.files[p]
                   /\ ~LoggedFs("write", p)
        /\ IsInRepo(pre.repo) => ~Logged("git init")

\* a second run, --vyper --force with a commit, has finished on the root the
\* first, Solidity run left: the three files are those of the first run
C3_Witness ==
    /\ runs = 2 /\ pc = "done" /\ DefaultMode
    /\ args.vyper /\ args.force /\ ~args.no_git /\ args.commit
    /\ pre.repo.where = "root"
    /\ pre.files["foundry.toml"] = BasicConfig
    /\ files["foundry.toml"] = BasicConfig
    /\ files[".gitignore"] = Asset("solidity/.gitignoreTemplate")
    /\ files[".github/workflows/test.yml"] = Asset("solidity/workflowTemplate.yml")
    /\ files["src/Counter.vy"] = Asset("vyper/CounterTemplate.vy")
    /\ Logged("git commit")

\* C4: after a successful template-mode run the history of the repository at
\* the root (HEAD and its ancestors) is one commit; it has no parent, its
\* tree is the tree of the fetched head, and its message contains the
\* resolved URL and the hash read from FETCH_HEAD.
C4_TemplateCollapse ==
    (TemplateMode /\ pc = "done") =>
        /\ repo.where = "root"
        /\ repo.head = new_commit_hash
        /\ Cardinality(History(repo)) = 1
        /\ LET c == Object(repo, repo.head)
           IN  /\ c.parent = NoHash
               /\ c.tree = Object(repo, repo.fetch_head).tree
               /\ commit_hash = repo.fetch_head
               /\ template = ResolveTemplate(args.template[1])
               /\ Contains(c.msg, template)
               /\ Contains(c.msg, commit_hash)

\* a template-mode run has succeeded on a root whose repository had a commit
C4_Witness ==
    /\ TemplateMode /\ pc = "done"
    /\ pre.repo.where = "root"
    /\ pre.repo.head # NoHash
    /\ Object(repo, pre.repo.head) \in repo.objects
    /\ History(repo) = {new_commit_hash}

\* the run that was started in default mode with a commit requested, git not
\* skipped, no --force, inside a repository whose working tree is not clean
UncleanRun ==
    /\ DefaultMode
    /\ ~args.no_git /\ args.commit /\ ~args.force
    /\ IsInRepo(pre.repo)
    /\ ~IsClean(pre.repo, pre.files)

WroteNothing ==
    /\ files = pre.files
    /\ dirs = pre.dirs
    /\ repo = pre.repo
    /\ lib_remappings = pre.lib_remappings
    /\ ~Logged("write")
    /\ \A i \in DOMAIN log : log[i].op = "mkdir" => log[i].arg = "."

\* C5 as claimed: such a run never gets past the clean-tree check and has
\* changed nothing on the disk, the root directory included.
C5_Original ==
    UncleanRun =>
        /\ pc \in {"create_root", "guard", "clean_check", "failed"}
        /\ WroteNothing
        /\ rootExists = pre.rootExists
        /\ ~Logged("mkdir")

\* C5, amended: such a run never gets past the clean-tree check and has
\* changed nothing on the disk except that it has created the root directory
\* when that did not exist.
C5_UncleanTree ==
    UncleanRun =>
        /\ pc \in {"create_root", "guard", "clean_check", "failed"}
        /\ result \in {"running", "err"}
        /\ WroteNothing

\* the clean-tree check has failed the run on an existing, empty root inside
\* a dirty repository
C5_Witness ==
    /\ UncleanRun
    /\ pc = "failed" /\ result = "err"
    /\ pre.rootExists
    /\ Logged("git status")
    /\ WroteNothing

\* the settings object init_vscode loaded: that of the file, or the empty one
LoadedObj ==
    IF ".vscode" \in pre.dirs /\ Exists(pre.files, ".vscode/settings.json")
    THEN pre.files[".vscode/settings.json"].obj
    ELSE [k \in {} |-> ""]

SettingsWritten ==
    /\ DefaultMode /\ args.vscode
    /\ pc \in {"finish", "done"}

\* C6: the settings document init_vscode persists holds every key of the
\* loaded document with its value, holds "src" under the contracts-directory
\* key and "lib" under the dependencies-directory key where the loaded
\* document had no such key, and holds no other key.
C6_SettingsMerge ==
    SettingsWritten =>
        LET old == LoadedObj
            new == files[".vscode/settings.json"].obj
        IN  /\ files[".vscode/settings.json"].kind = "json"
            /\ \A k \in DOMAIN old : k \in DOMAIN new /\ new[k] = old[k]
            /\ DOMAIN new = DOMAIN old \cup
                   {"solidity.packageDefaultDependenciesContractsDirectory",
                    "solidity.packageDefaultDependenciesDirectory"}
            /\ "solidity.packageDefaultDependenciesContractsDirectory" \notin DOMAIN old
                  => new["solidity.packageDefaultDependenciesContractsDirectory"] = "src"
            /\ "solidity.packageDefaultDependenciesDirectory" \notin DOMAIN old
                  => new["solidity.packageDefaultDependenciesDirectory"] = "lib"

\* the document {"solidity.packageDefaultDependenciesDirectory": "custom"}
\* was merged: the value is kept and only the contracts-directory key is new
C6_Witness ==
    /\ SettingsWritten
    /\ pre.files[".vscode/settings.json"] = Json([k \in {LibKey} |-> "custom"])
    /\ files[".vscode/settings.json"] =
           Json([k \in {LibKey, SrcKey} |-> IF k = LibKey THEN "custom" ELSE "src"])

\* the default-mode run that started on a root whose .vscode/settings.json
\* does not parse
MalformedRun ==
    /\ DefaultMode
    /\ ".vscode" \in pre.dirs
    /\ pre.files[".vscode/settings.json"] = Malformed

\* C7: in a default-mode run on a root whose .vscode/settings.json does not
\* parse, the file keeps its content, and with --vscode the run does not
\* reach the success message: init_vscode returns the error of the read.
C7_MalformedSettings ==
    MalformedRun =>
        /\ files[".vscode/settings.json"] = Malformed
        /\ ~LoggedFs("write", ".vscode/settings.json")
        /\ args.vscode =>
              /\ pc \notin {"finish", "done", "panicked"}
              /\ result # "ok"
              /\ \A i \in DOMAIN log : log[i] # Initialized

\* init_vscode has failed on the read of the malformed file
C7_Witness ==
    /\ MalformedRun /\ args.vscode
    /\ pc = "failed" /\ result = "err"
    /\ Logged("read_json_file")
    /\ files[".vscode/settings.json"] = Malformed

\* the lines of a text: its pieces between "\n"
RECURSIVE SplitLines(_, _)
SplitLines(chars, line) ==
    IF chars = <<>> THEN <<line>>
    ELSE IF Head(chars) = "\n" THEN <<line>> \o SplitLines(Tail(chars), <<>>)
    ELSE SplitLines(Tail(chars), Append(line, Head(chars)))

Lines(content) == SplitLines(content.chars, <<>>)

\* init_vscode has written remappings.txt in this run
WroteRemappings ==
    /\ DefaultMode /\ args.vscode
    /\ LoggedFs("write", "remappings.txt")
    /\ files["remappings.txt"].kind = "text"
    /\ ~Exists(pre.files, "remappings.txt")

\* what find_many returned to this run
Found == FindMany(pre.dirs, pre.lib_remappings)

Count(q, x) == Cardinality({i \in DOMAIN q : q[i] = x})

\* what init_vscode does write: the lines are in ascending order with equal
\* lines next to each other, and they are the remappings find_many returned,
\* each as often as it was returned; nothing is removed
C8_SortedAsReturned ==
    WroteRemappings =>
        LET ls == Lines(files["remappings.txt"])
        IN  /\ \A i \in 1..(Len(ls) - 1) : ~StrLess(ls[i + 1], ls[i])
            /\ Len(ls) = Len(Found)
            /\ \A x \in RemappingLines : Count(ls, x) = Count(Found, x)

\* find_many returned a/y twice; the file is "a/y\na/y"
C8_Duplicated ==
    /\ WroteRemappings
    /\ Found = <<RemapAY, RemapAY>>
    /\ files["remappings.txt"].chars = <<"a", "/", "y", "\n", "a", "/", "y">>

\* find_many returned b/x, a/y, a in this order; the file is "a\na/y\nb/x"
C8_Witness ==
    /\ WroteRemappings
    /\ Found = <<RemapBX, RemapAY, RemapA>>
    /\ files["remappings.txt"].chars =
           <<"a", "\n", "a", "/", "y", "\n", "b", "/", "x">>

\* init_vscode is past its remappings step (init.rs:253-264)
PastRemappings ==
    /\ DefaultMode /\ args.vscode
    /\ \/ pc \in {"vscode_settings", "finish", "done", "panicked"}
       \/ pc = "failed" /\ (Logged("read_json_file") \/ LoggedFs("write", "remappings.txt")
                             \/ LoggedFs("mkdir", ".vscode")
                             \/ LoggedFs("write", ".vscode/settings.json"))

\* C9: init_vscode calls the write of remappings.txt if and only if the file
\* did not exist and find_many returned at least one remapping; a
\* remappings.txt that existed keeps its content, and without remappings
\* none is created.
C9_RemappingsWritten ==
    PastRemappings =>
        /\ LoggedFs("write", "remappings.txt")
              <=> (~Exists(pre.files, "remappings.txt") /\ Found # <<>>)
        /\ Exists(pre.files, "remappings.txt")
              => files["remappings.txt"] = pre.files["remappings.txt"]
        /\ Found = <<>> => files["remappings.txt"] = pre.files["remappings.txt"]
        /\ (~Exists(pre.files, "remappings.txt") /\ Found # <<>>
              /\ pc # "failed")
              => files["remappings.txt"] = Text(RemappingsContent(Found))

\* a remappings.txt of the user was left alone although lib/ holds
\* remappings
C9_Witness ==
    /\ PastRemappings /\ pc = "finish"
    /\ Found # <<>>
    /\ pre.files["remappings.txt"] = UserData("remappings.txt")
    /\ files["remappings.txt"] = UserData("remappings.txt")
    /\ ~LoggedFs("write", "remappings.txt")

\* the step of default mode a logged call belongs to: 1 scaffold, 2 project
\* configuration, 3 init_git_repo, 4 dependency install, 5 init_vscode,
\* 6 the success message; 0 for the calls made before the scaffold.  The
\* is_in_repo of init_git_repo (init.rs:221) and that of the clean check
\* (init.rs:109) are the same call to git: the one made after the
\* configuration was loaded is the first call of init_git_repo.
ScaffoldPaths == {"src", "test", "script", "src/interface", "src/utils",
                  "README.md", "test/Counter.t.sol", "script/Counter.s.sol",
                  "src/Counter.sol", "src/Counter.vy",
                  "src/interface/ICounter.sol", "src/utils/VyperDeployer.sol"}

StepOf(l, i) ==
    LET c == l[i] IN
    IF c.op \in {"mkdir", "write", "load"}
    THEN IF c.arg \in ScaffoldPaths THEN 1
         ELSE IF c.arg = "foundry.toml" THEN 2
         ELSE IF c.arg \in {".gitignore", ".github/workflows",
                            ".github/workflows/test.yml"} THEN 3
         ELSE IF c.arg \in {"remappings.txt", ".vscode", ".vscode/settings.json"} THEN 5
         ELSE 0
    ELSE IF c.op \in {"git init", "git add", "git commit"} THEN 3
    ELSE IF c = IsInRepoCall /\ \E j \in 1..(i - 1) : l[j].op = "load" THEN 3
    ELSE IF c.op = "install" THEN 4
    ELSE IF c = WarnForgeStd THEN 4
    ELSE IF c.op = "read_json_file" THEN 5
    ELSE IF c = Initialized THEN 6
    ELSE 0

\* the steps st (one per call) are in order; m is the latest step so far
RECURSIVE InStepOrder(_, _)
InStepOrder(st, m) ==
    \/ st = <<>>
    \/ /\ Head(st) \in {0} \cup (m..6)
       /\ InStepOrder(Tail(st), IF Head(st) = 0 THEN m ELSE Head(st))

\* the position of the first call of step n or of a later step; 0 if none
FirstFrom(st, n) ==
    IF \E j \in DOMAIN st : st[j] >= n
    THEN CHOOSE j \in DOMAIN st : st[j] >= n /\ \A i \in 1..(j - 1) : st[i] < n
    ELSE 0

\* every call of the variant's scaffold is logged before position j
ScaffoldDoneBefore(j) ==
    LET ops == ScaffoldDirs \o ScaffoldOps(args.vyper)
    IN  \A k \in DOMAIN ops :
            \E i \in 1..(j - 1) : log[i].op = ops[k].op /\ log[i].arg = ops[k].path

\* the configuration was loaded before position j and foundry.toml exists
ConfigDoneBefore(j) ==
    /\ \E i \in 1..(j - 1) : log[i].op = "load"
    /\ Exists(files, "foundry.toml")

\* init_git_repo has done its work before position j
RepoDoneBefore(j) ==
    /\ IsInRepo(repo)
    /\ Exists(files, ".gitignore")
    /\ Exists(files, ".github/workflows/test.yml")
    /\ args.commit => \E i \in 1..(j - 1) : log[i].op = "git commit"

\* C10: in a default-mode run the calls occur in the order scaffold, project
\* configuration, init_git_repo (from its is_in_repo on), dependency install,
\* init_vscode: a call of a later step never precedes one of an earlier step, the scaffold is complete
\* before the configuration is loaded, the configuration is in place before
\* init_git_repo or the installer acts, and init_git_repo with its commit
\* (when git is not skipped) is over before the installer is called, which
\* (unless offline) is called before init_vscode acts.
C10_StepOrder ==
    DefaultMode =>
        LET st == [i \in DOMAIN log |-> StepOf(log, i)]
            f2 == FirstFrom(st, 2)
            f3 == FirstFrom(st, 3)
            f4 == FirstFrom(st, 4)
            f5 == FirstFrom(st, 5)
        IN  /\ InStepOrder(st, 0)
            /\ f2 > 0 => ScaffoldDoneBefore(f2)
            /\ f3 > 0 => ConfigDoneBefore(f3)
            /\ (f3 > 0 /\ ~args.no_git) => log[f3] = IsInRepoCall
            /\ (f4 > 0 /\ ~args.no_git) => RepoDoneBefore(f4)
            /\ (f5 > 0 /\ ~args.offline)
                  => \E i \in 1..(f5 - 1) : log[i].op = "install"

\* a run with every step has finished: commit, install and editor settings
C10_Witness ==
    /\ DefaultMode /\ pc = "done"
    /\ ~args.no_git /\ args.commit /\ ~args.offline /\ args.vscode
    /\ \E i, j, k \in DOMAIN log :
           /\ i < j /\ j < k
           /\ log[i].op = "git commit"
           /\ log[j].op = "install"
           /\ log[k].op = "write" /\ log[k].arg = ".vscode/settings.json"

\* a run is over without success: `?` or bail! returned an error from run(),
\* or the `expect` of init.rs:277 panicked
Failure == pc \in {"failed", "panicked"}

\* the calls of the step just taken that succeeded: all it logged but the
\* last one, whose error ended the run
DoneInStep == (Len(log) + 1)..(Len(log') - 1)

\* the step that ends the run undoes nothing: what the steps before it left
\* is still there, and so is what its own calls did before the failing one
\* (a file changes only by a write that succeeded or by the checkout of a
\* hard reset that failed later, and only that checkout removes directories:
\* those its removal of tracked files left empty)
NothingUndone ==
    /\ \A p \in Paths :
          files'[p] # files[p]
              => \/ \E i \in DoneInStep : log'[i].op = "write" /\ log'[i].arg = p
                 \/ log'[Len(log')].op = "git reset --hard"
    /\ \A i \in DoneInStep :
          /\ log'[i].op = "write" => Exists(files', log'[i].arg)
          /\ log'[i].op = "mkdir" /\ log'[i].arg # "." => log'[i].arg \in dirs'
    /\ dirs \subseteq dirs' \/ log'[Len(log')].op = "git reset --hard"
    /\ rootExists => rootExists'
    /\ repo' = repo
    /\ lib_remappings' = lib_remappings

\* once the run is over no step of it is executed: the state stays as it is
\* until run() is entered again
NoLaterStep ==
    /\ log' = log \/ (pc' = "create_root" /\ runs' = runs + 1)
    /\ UNCHANGED <<rootExists, files, dirs, lib_remappings, repo>>

\* fail-fast without rollback, whatever way the run ended; the success line
\* is in the log of a run that failed only as the call whose error ended it
FailFast ==
    /\ (~Failure /\ Failure') => NothingUndone
    /\ Failure => NoLaterStep
    /\ Failure' => \A i \in DOMAIN log' : log'[i] = Initialized => i = Len(log')

\* C11: when a step of a run fails, in either mode, no later step is
\* executed, the success line is not printed, nothing the completed steps did
\* is undone, and run() returns the error.
C11_Original == [][FailFast /\ (Failure' => result' = "err")]_vars

\* all of C11 but the returned error: also the run that panics is fail-fast
\* and undoes nothing
C11_FailFast == [][FailFast]_vars

\* a run has panicked on a settings document that is no JSON object, after
\* its scaffold was written
C11_Panicked ==
    /\ pc = "panicked" /\ result = "panic"
    /\ files[".vscode/settings.json"] = JsonNonObject
    /\ LoggedFs("write", "README.md")

\* the calls of the template branch (init.rs:71-95) in the order issued,
\* for a request a, followed by the success line
TemplateOps(a) ==
    <<"println", "git init", "git fetch", "git rev-parse", "git commit-tree",
      "git reset --hard", SubmoduleCall(a).op, "println">>

\* the calls logged after the root directory was created, if it was
AfterRootCreation ==
    LET made == IF log # <<>> /\ log[1] = Call("mkdir", ".") THEN Tail(log) ELSE log
    IN  IF made # <<>> /\ made[1] = CanonicalizeCall THEN Tail(made) ELSE made

IsPrefix(q, r) == Len(q) <= Len(r) /\ \A i \in DOMAIN q : q[i] = r[i]

\* C12: a template-mode run executes none of the default-mode steps: after
\* the creation of a missing root and the canonicalize of its path its calls
\* are, in this order and at most once each, the line that names the
\* template, the repository init, the fetch, the commit-hash read, the
\* commit-tree, the hard reset and the submodule operation, then the success
\* line; it creates no directory under the root and writes no file itself,
\* and until the hard reset the files are those the run found.
C12_TemplateOnly ==
    TemplateMode =>
        /\ IsPrefix([i \in DOMAIN AfterRootCreation |-> AfterRootCreation[i].op],
                    TemplateOps(args))
        /\ \A i \in DOMAIN log :
              log[i].op = "println" => log[i] \in {InitializingFrom, Initialized}
        /\ \A i \in DOMAIN log :
              /\ log[i].op \notin {"write", "load", "install", "git add",
                                   "git commit", "read_json_file"}
              /\ log[i].op = "mkdir" => (i = 1 /\ log[i].arg = ".")
        /\ ~Logged("git reset --hard") => (files = pre.files /\ dirs = pre.dirs)
        /\ lib_remappings = pre.lib_remappings

\* a template-mode run has succeeded on a root that held a project of the
\* user: the fetched tree is checked out and nothing else was written
C12_Witness ==
    /\ TemplateMode /\ pc = "done"
    /\ pre.files = UserProject
    /\ files # pre.files
    /\ Len(AfterRootCreation) = Len(TemplateOps(args))

\* the calls init_git_repo and the clean-tree check make to git
GitOps == {"git rev-parse", "git status", "git init", "git add", "git commit"}

\* the files and directories init_git_repo writes
RepoPaths == {".gitignore", ".github/workflows/test.yml"}

\* C13: in a default-mode run with no_git set nothing of the repository
\* handling happens, whatever commit and force are and whether or not the
\* root is in a repository: git is never called (no is_in_repo, no clean-tree
\* check, no init, no add, no commit), the repository is as it was, and
\* .gitignore and the workflow file are neither written nor changed.
C13_SkipGit ==
    (DefaultMode /\ args.no_git) =>
        /\ \A i \in DOMAIN log : log[i].op \notin GitOps
        /\ repo = pre.repo
        /\ pc \notin {"git_init", "git_ignore", "git_workflow", "git_commit"}
        /\ \A p \in RepoPaths : ~LoggedFs("write", p) /\ files[p] = pre.files[p]
        /\ ~LoggedFs("mkdir", ".github/workflows")
        /\ dirs \cap {".github", ".github/workflows"}
               = pre.dirs \cap {".github", ".github/workflows"}

\* a run with no_git and commit set and force unset has succeeded inside a
\* repository whose working tree is not clean
C13_Witness ==
    /\ DefaultMode /\ pc = "done"
    /\ args.no_git /\ args.commit /\ ~args.force
    /\ IsInRepo(pre.repo) /\ ~IsClean(pre.repo, pre.files)
    /\ LoggedFs("write", "foundry.toml")
    /\ ~Exists(files, ".gitignore")

\* the positions of the log at which the installer was called
InstallCalls == {i \in DOMAIN log : log[i].op = "install"}

\* the run has reached the install step (init.rs:193) and the step has
\* acted: the run is past line 201, or it has failed at a call of the install
\* step or of a later one
PastInstall ==
    \/ pc \in {"vscode_remappings", "vscode_settings", "finish", "done", "panicked"}
    \/ pc = "failed" /\ \E i \in DOMAIN log : StepOf(log, i) >= 4

\* the run ended on the warning of init.rs:195, which could not be written
WarningFailed == pc = "failed" /\ log # <<>> /\ log[Len(log)] = WarnForgeStd

\* the installer was called and returned Ok
InstallReturned == \E i \in InstallCalls : pc = "failed" => i < Len(log)

\* what the installer is handed and what is around the call: no dependency
\* and the warning just before it when lib/forge-std existed (nothing is then
\* added under lib), the forge-std dependency and no warning otherwise
InstallArguments ==
    /\ \A i \in InstallCalls :
          /\ log[i].arg = IF "lib/forge-std" \in pre.dirs THEN <<>> ELSE <<ForgeStd>>
          /\ log[i].arg = <<>> => (i > 1 /\ log[i - 1] = WarnForgeStd)
    /\ \A j \in DOMAIN log :
          log[j] = WarnForgeStd
              => /\ "lib/forge-std" \in pre.dirs /\ ~args.offline
                 /\ \A k \in DOMAIN log : log[k] = WarnForgeStd => k = j
                 /\ WarningFailed \/ (j < Len(log) /\ log[j + 1] = Call("install", <<>>))
    /\ "lib/forge-std" \in pre.dirs
          => (lib_remappings = pre.lib_remappings /\ "lib/forge-std" \in dirs)
    /\ InstallReturned => "lib/forge-std" \in dirs

\* C14 as claimed: a default-mode run that has reached the install step has
\* called the installer exactly once when offline is unset and never when it
\* is set, with the arguments and the warning as described.
C14_Original ==
    DefaultMode =>
        /\ Cardinality(InstallCalls) <= 1
        /\ args.offline => InstallCalls = {}
        /\ (PastInstall /\ ~args.offline) => Cardinality(InstallCalls) = 1
        /\ InstallArguments

\* C14, amended: a default-mode run calls the installer at most once and
\* never with offline set; a run that has reached the install step without
\* offline has called it exactly once, unless lib/forge-std existed and the
\* warning could not be written: that run has failed on the warning and has
\* not called the installer.  The call receives no dependency, right after
\* the warning, when lib/forge-std existed (nothing is then added under lib)
\* and exactly the forge-std dependency, without a warning, otherwise.
C14_InstallDecision ==
    DefaultMode =>
        /\ Cardinality(InstallCalls) <= 1
        /\ args.offline => InstallCalls = {}
        /\ (PastInstall /\ ~args.offline)
              => IF WarningFailed
                 THEN InstallCalls = {} /\ "lib/forge-std" \in pre.dirs
                 ELSE Cardinality(InstallCalls) = 1
        /\ InstallArguments

\* a run has succeeded on a root that already held lib/forge-std: the
\* installer was called with no dependency
C14_Witness ==
    /\ DefaultMode /\ pc = "done" /\ ~args.offline
    /\ "lib/forge-std" \in pre.dirs
    /\ \E i \in InstallCalls : log[i].arg = <<>> /\ log[i - 1] = WarnForgeStd

\* the positions of the log at which the template was fetched
FetchCalls == {i \in DOMAIN log : log[i].op = "git fetch"}

\* C15: every fetch of a template-mode run is issued shallow, whether the
\* request's shallow flag is set or not, and with the request's branch: the
\* named branch when one is given, none (the remote's default branch)
\* otherwise.
C15_FetchShallow ==
    TemplateMode =>
        \A i \in FetchCalls :
            /\ log[i].arg.shallow = TRUE
            /\ log[i].arg.branch = args.branch
            /\ log[i].arg.url = template

\* a template was fetched for a request without the shallow flag and with a
\* named branch
C15_Witness ==
    /\ TemplateMode /\ ~args.shallow /\ args.branch = <<"dev">>
    /\ FetchCalls # {}
    /\ repo.fetch_head # NoHash

\* a template was fetched for a request with the shallow flag and without a
\* branch
C15_WitnessShallow ==
    /\ TemplateMode /\ args.shallow /\ args.branch = <<>>
    /\ FetchCalls # {}
    /\ repo.fetch_head # NoHash

\* the positions of the log at which a submodule operation was called
SubmoduleCalls ==
    {i \in DOMAIN log : log[i].op \in {"git submodule init", "git submodule update"}}

\* C16: a template-mode run calls at most one submodule operation, and only
\* after its hard reset has succeeded; a successful run has called exactly
\* one: submodule init alone when the request's shallow flag is set, and the
\* recursive init-and-update (no forced checkout, no remote tracking)
\* when it is not.
C16_SubmoduleStep ==
    TemplateMode =>
        /\ Cardinality(SubmoduleCalls) <= 1
        /\ pc = "done" => Cardinality(SubmoduleCalls) = 1
        /\ \A i \in SubmoduleCalls :
              /\ \E j \in 1..(i - 1) :
                    log[j] = Call("git reset --hard", new_commit_hash)
              /\ repo.head = new_commit_hash
              /\ IF args.shallow
                 THEN log[i].op = "git submodule init"
                 ELSE /\ log[i].op = "git submodule update"
                      /\ SubmoduleUpdateFlags(log[i].arg).recursive
                      /\ ~SubmoduleUpdateFlags(log[i].arg).force
                      /\ ~SubmoduleUpdateFlags(log[i].arg).remote

\* a template-mode run without the shallow flag has succeeded
C16_Witness ==
    /\ TemplateMode /\ pc = "done" /\ ~args.shallow
    /\ \E i \in SubmoduleCalls : log[i].op = "git submodule update"
    /\ repo.head = new_commit_hash

\* the commit objects this run has synthesized with commit_tree: those with
\* the run's message that the repository did not hold when the run began
Synthesized ==
    {c \in repo.objects :
        /\ new_commit_hash # NoHash
        /\ c.hash = new_commit_hash
        /\ c.msg = TemplateCommitMsg(template, commit_hash)
        /\ ~(pre.repo.where = "root" /\ c \in pre.repo.objects)}

\* the run has failed in template mode
TemplateFailed == TemplateMode /\ pc = "failed"

\* the hard reset is the call that failed
ResetFailed == TemplateFailed /\ log # <<>> /\ log[Len(log)].op = "git reset --hard"

\* C17 as claimed: after a failed template-mode run every commit the run
\* synthesized is the one HEAD points to.
C17_Original ==
    TemplateFailed => \A c \in Synthesized : repo.head = c.hash

\* C17, amended: after a failed template-mode run there is at most one
\* synthesized commit, and HEAD points to it unless the hard reset is the
\* step that failed; a run whose commit-tree succeeded and whose hard reset
\* failed leaves the synthesized commit in the object store with HEAD where
\* it was, and a run that failed before commit-tree succeeded has
\* synthesized none.
C17_DanglingCommit ==
    TemplateFailed =>
        /\ Cardinality(Synthesized) <= 1
        /\ ~Logged("git commit-tree") => Synthesized = {}
        /\ IF ResetFailed
           THEN /\ Cardinality(Synthesized) = 1
                /\ repo.head # new_commit_hash
                /\ new_commit_hash \notin History(repo)
                /\ repo.head = IF pre.repo.where = "root" THEN pre.repo.head ELSE NoHash
           ELSE \A c \in Synthesized : repo.head = c.hash /\ c.parent = NoHash

\* the hard reset has failed after commit-tree succeeded, on a root that
\* held a repository with a commit of its own
C17_Witness ==
    /\ ResetFailed
    /\ pre.repo.where = "root"
    /\ Synthesized # {}
    /\ repo.head = pre.repo.head

\* the embedded resource each scaffold path gets in a variant
ScaffoldContent(vyper) ==
    IF vyper
    THEN [p \in {"README.md", "test/Counter.t.sol", "script/Counter.s.sol",
                 "src/Counter.vy", "src/interface/ICounter.sol",
                 "src/utils/VyperDeployer.sol"} |->
            CASE p = "README.md" -> Asset("vyper/README.md")
              [] p = "test/Counter.t.sol" -> Asset("vyper/CounterTemplate.t.sol")
              [] p = "script/Counter.s.sol" -> Asset("vyper/CounterTemplate.s.sol")
              [] p = "src/Counter.vy" -> Asset("vyper/CounterTemplate.vy")
              [] p = "src/interface/ICounter.sol" -> Asset("vyper/ICounterTemplate.sol")
              [] p = "src/utils/VyperDeployer.sol"
                    -> Asset("vyper/VyperDeployerTemplate.sol")]
    ELSE [p \in {"README.md", "test/Counter.t.sol", "script/Counter.s.sol",
                 "src/Counter.sol"} |->
            CASE p = "README.md" -> Asset("solidity/README.md")
              [] p = "test/Counter.t.sol" -> Asset("solidity/CounterTemplate.t.sol")
              [] p = "script/Counter.s.sol" -> Asset("solidity/CounterTemplate.s.sol")
              [] p = "src/Counter.sol" -> Asset("solidity/CounterTemplate.sol")]

\* the run is past the scaffold (init.rs:171)
PastScaffold ==
    \/ pc \in {"config", "git_init", "git_ignore", "git_workflow", "git_commit",
               "install", "vscode_remappings", "vscode_settings", "finish",
               "done", "panicked"}
    \/ pc = "failed" /\ Logged("load")

\* C18: once a default-mode run is past its scaffold, and so after every
\* successful one, README.md, the test, the script and the contract source
\* (and the interface and the deployer in the vyper variant) hold exactly the
\* embedded content of the variant of this run, whatever those paths held
\* before; each was written once by this run.
C18_ScaffoldOverwrites ==
    (DefaultMode /\ PastScaffold) =>
        \A p \in DOMAIN ScaffoldContent(args.vyper) :
            /\ files[p] = ScaffoldContent(args.vyper)[p]
            /\ Cardinality({i \in DOMAIN log :
                               log[i].op = "write" /\ log[i].arg = p}) = 1

\* a force run has succeeded on a root whose README.md held other content
C18_Witness ==
    /\ DefaultMode /\ pc = "done" /\ args.force
    /\ pre.files["README.md"] \notin
          {Absent, ScaffoldContent(args.vyper)["README.md"]}
    /\ files["README.md"] = ScaffoldContent(args.vyper)["README.md"]

\* the root the run found was not empty, held a repository, and its working
\* tree had uncommitted changes
DirtyProject ==
    /\ pre.rootExists
    /\ RootEntries(pre.files, pre.dirs, pre.repo) # {}
    /\ pre.repo.where = "root"
    /\ ~IsClean(pre.repo, pre.files)

\* C19: a template-mode run never evaluates the non-empty-directory guard or
\* the clean-tree check, whatever the root holds and whatever commit is: it
\* is never at those steps, never asks git for the work tree or its status,
\* and when it has failed it is a collaborator call of the template branch
\* (or the creation of the root, or a line of output) that failed; past the hard reset, HEAD is
\* the collapsed commit.
C19_NoTemplateGuards ==
    TemplateMode =>
        /\ pc \notin {"guard", "clean_check"}
        /\ \A i \in DOMAIN log : log[i] \notin {IsInRepoCall, EnsureCleanCall}
        /\ pc = "failed" =>
              /\ log # <<>>
              /\ log[Len(log)].op \in
                    {"mkdir", "canonicalize", "println", "git init", "git fetch",
                     "git rev-parse", "git commit-tree", "git reset --hard",
                     "git submodule init", "git submodule update"}
        /\ pc \in {"template_submodules", "finish", "done"} =>
              /\ Logged("git reset --hard")
              /\ repo.head = new_commit_hash

\* a template-mode run with commit requested has gone through the hard reset
\* on a non-empty root that held a repository with uncommitted changes
C19_Witness ==
    /\ TemplateMode /\ args.commit /\ ~args.force /\ ~args.no_git
    /\ DirtyProject
    /\ Logged("git reset --hard")
    /\ repo.head = new_commit_hash
    /\ pc = "done"

\* ensure_clean was called in this run
EnsureCleanInvoked == \E i \in DOMAIN log : log[i] = EnsureCleanCall

\* C20 as claimed: in every run in which ensure_clean is invoked, force is
\* unset and the root has no entries, so it holds no .git of its own and the
\* repository checked is one that encloses the root.
C20_Original ==
    EnsureCleanInvoked =>
        /\ DefaultMode /\ ~args.force /\ ~args.no_git /\ args.commit
        /\ RootEntries(pre.files, pre.dirs, pre.repo) = {}
        /\ pre.repo.where = "outer"

\* what holds of every run in which ensure_clean is invoked: force is unset,
\* the guard did not bail, and nothing was written before the call
C20_CleanCheckContext ==
    EnsureCleanInvoked =>
        /\ DefaultMode /\ ~args.force /\ ~args.no_git /\ args.commit
        /\ IsInRepo(pre.repo)
        /\ \A i \in DOMAIN log :
              (log[i] = EnsureCleanCall /\ i > 1) =>
                  \A j \in 1..(i - 1) :
                      log[j] \in {Call("mkdir", "."), CanonicalizeCall, IsInRepoCall}

\* ensure_clean was called on a root that holds a repository of its own and
\* files, after the listing of the root had failed
C20_NonEmptyChecked ==
    /\ EnsureCleanInvoked
    /\ pre.repo.where = "root"
    /\ pre.files = UserProject

\* C2 where the root can be listed: the guard lets no default-mode run
\* without --force through on a non-empty root unless read_dir failed
C2_GuardWhenListed ==
    (GuardedRun /\ faults = 0) =>
        /\ pc \in {"create_root", "guard", "failed"}
        /\ files = pre.files /\ dirs = pre.dirs /\ repo = pre.repo
        /\ \A i \in DOMAIN log : log[i] = CanonicalizeCall

====
